---- MODULE Spec2Model ----
(***************************************************************************)
(* Model of label_studio/data_manager/functions.py:                        *)
(*   get_all_columns       - column descriptors for the data manager       *)
(*   get_prepared_queryset - selection of tasks from a view or a request   *)
(*   evaluate_predictions  - dispatch of tasks to the project's ML backends*)
(* Display strings of the columns ('title' of the fixed columns, 'help')   *)
(* are literals that no operation reads; they are left out of the records. *)
(***************************************************************************)
EXTENDS Integers, Sequences, FiniteSets, TLC

VARIABLES
    op,                 \* which function the behaviour exercises
    pc,                 \* position inside that function
    data_types,         \* project.data_types: sequence of <<key, type>>
    all_data_columns,   \* project.summary.all_data_columns: sequence of keys
    members,            \* project.organization.members user ids
    result,             \* value returned by get_all_columns
    GET,                \* request.GET (the view_id parameter)
    data,               \* request.data (the request body)
    project,            \* pk of the project argument
    views,              \* the View table: pk -> view
    outcome,            \* what get_prepared_queryset returned or raised
    executed,           \* prepare_params handed to Task.prepared.all
    tasks,              \* argument of evaluate_predictions
    ml_backends,        \* registered backends: backend id -> project pk
    failing,            \* backends whose predict_many_tasks raises
    calls,              \* predict_many_tasks calls made: <<backend, tasks>>
    i,                  \* loop position in evaluate_predictions
    raised              \* exception that left evaluate_predictions

vars == <<op, pc, data_types, all_data_columns, members, result, GET, data,
          project, views, outcome, executed, tasks, ml_backends, failing,
          calls, i, raised>>

colVars == <<data_types, all_data_columns, members, result>>
qryVars == <<GET, data, project, views, outcome, executed>>
evlVars == <<tasks, ml_backends, failing, calls, i, raised>>

----------------------------------------------------------------------------
(* Bounds *)
MaxDeclared == 2      \* longest declared schema
MaxInferred == 2      \* longest inferred column list
NumTasks    == 5      \* task ids 1..NumTasks in the store
NumViews    == 2      \* view pks 1..NumViews in the View table
NumBackends == 3      \* backend ids 1..NumBackends
MaxBatch    == 2      \* longest task list given to evaluate_predictions

----------------------------------------------------------------------------
(* Generic helpers *)
Range(s) == {s[k] : k \in DOMAIN s}

NoDup(s) == \A a, b \in DOMAIN s : s[a] = s[b] => a = b

SeqsUpTo(S, n) == UNION {[1..k -> S] : k \in 0..n}

Keys(od) == [k \in DOMAIN od |-> od[k][1]]

Ids(cols) == [k \in DOMAIN cols |-> cols[k].id]

Reverse(s) == [k \in DOMAIN s |-> s[Len(s) + 1 - k]]

----------------------------------------------------------------------------
(* get_all_columns *)
DATA_UNDEFINED_NAME == "$undefined$"

RECURSIVE OD_Update(_, _)
\* OrderedDict.update: an existing key keeps its place, a new key is appended
OD_Update(od, items) ==
    IF items = <<>> THEN od
    ELSE LET kv == Head(items)
             at == {k \in DOMAIN od : od[k][1] = kv[1]}
         IN  IF at = {} THEN OD_Update(Append(od, kv), Tail(items))
             ELSE OD_Update([od EXCEPT ![CHOOSE k \in at : TRUE] = kv], Tail(items))

RECURSIVE OD_Pop(_, _)
\* OrderedDict.pop(key, None)
OD_Pop(od, key) ==
    IF od = <<>> THEN <<>>
    ELSE IF Head(od)[1] = key THEN OD_Pop(Tail(od), key)
    ELSE <<Head(od)>> \o OD_Pop(Tail(od), key)

RECURSIVE UnknownItems(_, _)
\* {key: 'Unknown' for key in all_data_columns if key not in data_types}
UnknownItems(cols, od) ==
    IF cols = <<>> THEN <<>>
    ELSE IF Head(cols) \in Range(Keys(od)) THEN UnknownItems(Tail(cols), od)
    ELSE <<<<Head(cols), "Unknown">>>> \o UnknownItems(Tail(cols), od)

MergedNoPop(declared, inferred) ==
    LET dt0 == OD_Update(<<>>, declared)
    IN  IF inferred # <<>> THEN OD_Update(dt0, UnknownItems(inferred, dt0)) ELSE dt0

MergedDataTypes(declared, inferred) ==
    LET dt0 == OD_Update(<<>>, declared)
        dt1 == IF inferred # <<>>
               THEN OD_Update(dt0, UnknownItems(inferred, dt0))
               ELSE dt0
    IN  IF Len(declared) > 0 THEN OD_Pop(dt1, DATA_UNDEFINED_NAME) ELSE dt1

ColumnType(data_type) ==
    IF data_type \in {"Image", "Audio", "AudioPlus", "Unknown"} THEN data_type ELSE "String"

LabelingOfMerged(key, declared) == TRUE

LabelingVisible(key, declared) ==
    key \in Range(Keys(declared)) \/ key = DATA_UNDEFINED_NAME

DataColumn(key, data_type, declared) ==
    [id |-> key,
     title |-> IF key # DATA_UNDEFINED_NAME THEN key ELSE "data",
     type |-> ColumnType(data_type),
     target |-> "tasks",
     parent |-> "data",
     visibility_defaults |-> [explore |-> TRUE, labeling |-> LabelingVisible(key, declared)]]

DataColumns(declared, inferred) ==
    LET dt == MergedDataTypes(declared, inferred)
    IN  [k \in DOMAIN dt |-> DataColumn(dt[k][1], dt[k][2], declared)]

DataRoot(task_data_children) ==
    [id |-> "data", type |-> "List", target |-> "tasks", children |-> task_data_children]

SysCol(id, type, explore, labeling) ==
    [id |-> id, type |-> type, target |-> "tasks",
     visibility_defaults |-> [explore |-> explore, labeling |-> labeling]]

SystemColumnsCopyPaste(member_ids) ==
    << SysCol("id", "Number", TRUE, FALSE),
       SysCol("completed_at", "Datetime", TRUE, FALSE),
       SysCol("total_annotations", "Number", TRUE, TRUE),
       SysCol("total_annotations", "Number", TRUE, FALSE),
       SysCol("total_predictions", "Number", TRUE, FALSE),
       SysCol("annotations_results", "String", FALSE, FALSE),
       SysCol("predictions_score", "Number", FALSE, FALSE),
       SysCol("predictions_results", "String", FALSE, FALSE),
       SysCol("file_upload", "String", FALSE, FALSE),
       SysCol("created_at", "Datetime", FALSE, FALSE),
       [id |-> "annotators", type |-> "List", target |-> "tasks",
        schema |-> [items |-> member_ids],
        visibility_defaults |-> [explore |-> TRUE, labeling |-> FALSE]] >>

SystemColumns(member_ids) ==
    << SysCol("id", "Number", TRUE, FALSE),
       SysCol("completed_at", "Datetime", TRUE, FALSE),
       SysCol("total_annotations", "Number", TRUE, TRUE),
       SysCol("cancelled_annotations", "Number", TRUE, FALSE),
       SysCol("total_predictions", "Number", TRUE, FALSE),
       SysCol("annotations_results", "String", FALSE, FALSE),
       SysCol("predictions_score", "Number", FALSE, FALSE),
       SysCol("predictions_results", "String", FALSE, FALSE),
       SysCol("file_upload", "String", FALSE, FALSE),
       SysCol("created_at", "Datetime", FALSE, FALSE),
       [id |-> "annotators", type |-> "List", target |-> "tasks",
        schema |-> [items |-> member_ids],
        visibility_defaults |-> [explore |-> TRUE, labeling |-> FALSE]] >>

get_all_columns_children_of_all(declared, inferred, member_ids) ==
    LET dataCols == DataColumns(declared, inferred)
        withSystem == dataCols \o SystemColumns(member_ids)
    IN  [columns |-> withSystem \o <<DataRoot(Ids(withSystem))>>]

get_all_columns(declared, inferred, member_ids) ==
    LET dataCols == DataColumns(declared, inferred)
        task_data_children == Ids(dataCols)
        data_root == DataRoot(task_data_children)
    IN  [columns |-> dataCols \o SystemColumns(member_ids) \o <<data_root>>]

----------------------------------------------------------------------------
(* Inputs of get_all_columns *)
FieldNames == {"image", "caption", DATA_UNDEFINED_NAME, "id", "data"}

DeclaredTypes == {"Image", "Text"}

DeclaredSchemas ==
    {d \in SeqsUpTo(FieldNames \X DeclaredTypes, MaxDeclared) : NoDup(Keys(d))}

InferredColumns == {f \in SeqsUpTo(FieldNames, MaxInferred) : NoDup(f)}

MemberSets == {{}, {1, 2}}

NoColumns == [columns |-> <<>>]

GetAllColumns ==
    /\ op = "get_all_columns" /\ pc = "start"
    /\ result' = get_all_columns(data_types, all_data_columns, members)
    /\ pc' = "done"
    /\ UNCHANGED <<op, data_types, all_data_columns, members, qryVars, evlVars>>

----------------------------------------------------------------------------
(* JSON values of the request body *)
Absent   == [kind |-> "absent"]
JBool(b) == [kind |-> "bool", val |-> b]
JList(s) == [kind |-> "list", val |-> s]
JStr(s)  == [kind |-> "str", val |-> s]
JDict(a, e, n) == [kind |-> "dict", all |-> a, excluded |-> e, included |-> n]

\* dict.get(key, default) on the value stored under the key
Get(value, default) == IF value.kind = "absent" THEN default ELSE value

----------------------------------------------------------------------------
(* Collaborators of get_prepared_queryset *)
Projects == {1, 2}

\* the Task table: every fourth task belongs to project 2, the rest to project 1
TaskProject(t) == IF t % 4 = 0 THEN 2 ELSE 1

TaskIds == 1..NumTasks

\* the only task attribute a filter of the model reads
IsLabeled(t) == t % 2 = 1

int_from_request(params, default) == IF params.kind = "absent" THEN default ELSE params.val

ValidSelectedItems(s) ==
    /\ s.kind = "dict"
    /\ s.all.kind = "bool"
    /\ s.excluded.kind \in {"absent", "list"}
    /\ s.included.kind \in {"absent", "list"}
    /\ s.excluded.kind = "list" \/ s.included.kind = "list"

InvalidParams == [valid |-> FALSE]

PrepareParams(proj, selectedItems, filters, ordering) ==
    IF ValidSelectedItems(selectedItems)
    THEN [valid |-> TRUE, project |-> proj,
          all |-> selectedItems.all.val,
          excluded |-> Get(selectedItems.excluded, JList(<<>>)).val,
          included |-> Get(selectedItems.included, JList(<<>>)).val,
          filters |-> filters, ordering |-> ordering]
    ELSE InvalidParams

get_prepare_tasks_params(view) ==
    PrepareParams(view.project, view.selected_items, view.filters, view.ordering)

RECURSIVE Ascending(_)
Ascending(S) ==
    IF S = {} THEN <<>>
    ELSE LET m == CHOOSE x \in S : \A y \in S : x <= y
         IN  <<m>> \o Ascending(S \ {m})

FilterHolds(filters, t) == filters = "none" \/ (filters = "is_labeled" /\ IsLabeled(t))

Task_prepared_all(pp) ==
    LET scope    == {t \in TaskIds : TaskProject(t) = pp.project}
        filtered == {t \in scope : FilterHolds(pp.filters, t)}
        chosen   == IF pp.all THEN filtered \ Range(pp.excluded)
                    ELSE filtered \cap Range(pp.included)
    IN  IF pp.ordering = <<"-id">> THEN Reverse(Ascending(chosen)) ELSE Ascending(chosen)

----------------------------------------------------------------------------
(* get_prepared_queryset *)
DefaultSelected == JDict(JBool(TRUE), JList(<<>>), Absent)

Raise(status, message) ==
    [status |-> status, message |-> message, prepare_params |-> InvalidParams, queryset |-> <<>>]

\* line 220: the manager call, reached only with constructed parameters
Prepared(pp) ==
    IF pp.valid
    THEN [status |-> "ok", message |-> "", prepare_params |-> pp, queryset |-> Task_prepared_all(pp)]
    ELSE Raise("ValidationError", "PrepareParams")

ViewMismatchIgnored(view, proj) == FALSE

ViewMismatch(view, proj) == view.project # proj

IsDictUnchecked(selected) == TRUE

IsDict(selected) == selected.kind = "dict"

InlineParamsNoFilters(body, proj) ==
    PrepareParams(proj, Get(body.selectedItems, DefaultSelected), "none",
                  Get(body.ordering, JList(<<>>)).val)

InlineParams(body, proj) ==
    LET selected == Get(body.selectedItems, DefaultSelected)
        filters  == Get(body.filters, JStr("none")).val
        ordering == Get(body.ordering, JList(<<>>)).val
    IN  PrepareParams(proj, selected, filters, ordering)

get_prepared_queryset_body_overlay(params, body, proj, viewTable) ==
    LET view_id == int_from_request(params, 0)
    IN  IF view_id > 0
        THEN IF view_id \notin DOMAIN viewTable THEN Raise("Http404", "View")
             ELSE IF ViewMismatch(viewTable[view_id], proj)
                  THEN Raise("DataManagerException", "Project and View mismatch")
             ELSE IF body.selectedItems.kind # "absent"
                  THEN Prepared(PrepareParams(proj, body.selectedItems,
                                              viewTable[view_id].filters,
                                              viewTable[view_id].ordering))
             ELSE Prepared(get_prepare_tasks_params(viewTable[view_id]))
        ELSE IF ~IsDict(Get(body.selectedItems, DefaultSelected))
             THEN Raise("DataManagerException", "selectedItems must be dict")
             ELSE Prepared(InlineParams(body, proj))

get_prepared_queryset(params, body, proj, viewTable) ==
    LET view_id == int_from_request(params, 0)
    IN  IF view_id > 0
        THEN IF view_id \notin DOMAIN viewTable THEN Raise("Http404", "View")
             ELSE IF ViewMismatch(viewTable[view_id], proj)
                  THEN Raise("DataManagerException", "Project and View mismatch")
             ELSE Prepared(get_prepare_tasks_params(viewTable[view_id]))
        ELSE IF ~IsDict(Get(body.selectedItems, DefaultSelected))
             THEN Raise("DataManagerException", "selectedItems must be dict")
             ELSE Prepared(InlineParams(body, proj))

----------------------------------------------------------------------------
(* Inputs of get_prepared_queryset *)
ViewIdParams == {Absent} \cup {[kind |-> "int", val |-> v] : v \in -1..(NumViews + 1)}

SelectedItemsInputs ==
    {Absent, JList(<<5>>)} \cup
    {JDict(a, e, n) : a \in {Absent, JBool(TRUE), JBool(FALSE), JStr("yes")},
                      e \in {Absent, JStr("5")} \cup {JList(l) : l \in {<<>>, <<5>>}},
                      n \in {Absent} \cup {JList(l) : l \in {<<1, 5>>}}}

Bodies ==
    [selectedItems : SelectedItemsInputs,
     filters       : {Absent, JStr("is_labeled")},
     ordering      : {Absent, JList(<<"-id">>)}]

EmptyBody == [selectedItems |-> Absent, filters |-> Absent, ordering |-> Absent]

ViewRecords ==
    [project        : Projects,
     filters        : {"none", "is_labeled"},
     ordering       : {<<>>},
     selected_items : {JDict(JBool(TRUE), JList(<<5>>), Absent),
                       JDict(JBool(FALSE), Absent, JList(<<1, 5>>))}]

NoOutcome == Raise("none", "")

GetPreparedQueryset ==
    /\ op = "get_prepared_queryset" /\ pc = "start"
    /\ outcome' = get_prepared_queryset(GET, data, project, views)
    /\ executed' = IF outcome'.status = "ok" THEN <<outcome'.prepare_params>> ELSE <<>>
    /\ pc' = "done"
    /\ UNCHANGED <<op, GET, data, project, views, colVars, evlVars>>

----------------------------------------------------------------------------
(* evaluate_predictions *)
Backends == 1..NumBackends

\* project.ml_backends.all(): the backends registered for the project, by id
BackendsOf(proj, registry) == Ascending({b \in DOMAIN registry : registry[b] = proj})

TaskBatches == {b \in SeqsUpTo(TaskIds, MaxBatch) : NoDup(b)}

\* lines 227-230: the empty check and the project of the first task
EvalStart ==
    /\ op = "evaluate_predictions" /\ pc = "start"
    /\ IF tasks = <<>> THEN pc' = "done" /\ i' = i
       ELSE pc' = "loop" /\ i' = 1
    /\ UNCHANGED <<op, tasks, ml_backends, failing, calls, raised, colVars, qryVars>>

\* lines 232-234: one iteration; an exception of the call leaves the function
PredictManyTasks ==
    /\ op = "evaluate_predictions" /\ pc = "loop"
    /\ LET backs == BackendsOf(TaskProject(tasks[1]), ml_backends)
       IN  /\ i <= Len(backs)
           /\ calls' = Append(calls, <<backs[i], tasks>>)
           /\ IF backs[i] \in failing
              THEN pc' = "raised" /\ raised' = "BackendError" /\ i' = i
              ELSE pc' = "loop" /\ raised' = raised /\ i' = i + 1
    /\ UNCHANGED <<op, tasks, ml_backends, failing, colVars, qryVars>>

\* the loop is exhausted: the function returns
EvalReturn ==
    /\ op = "evaluate_predictions" /\ pc = "loop"
    /\ i > Len(BackendsOf(TaskProject(tasks[1]), ml_backends))
    /\ pc' = "done"
    /\ UNCHANGED <<op, tasks, ml_backends, failing, calls, i, raised, colVars, qryVars>>

----------------------------------------------------------------------------
(* Initial states: the inputs of the exercised function, the rest idle *)
ColumnsIdle ==
    /\ data_types = <<>> /\ all_data_columns = <<>> /\ members = {}
    /\ result = NoColumns

QueryIdle ==
    /\ GET = Absent /\ data = EmptyBody /\ project = 1
    /\ views = <<>> /\ outcome = NoOutcome /\ executed = <<>>

EvalIdle ==
    /\ tasks = <<>> /\ ml_backends = <<>> /\ failing = {}
    /\ calls = <<>> /\ i = 0 /\ raised = "none"

InitColumns ==
    /\ op = "get_all_columns" /\ pc = "start"
    /\ data_types \in DeclaredSchemas
    /\ all_data_columns \in InferredColumns
    /\ members \in MemberSets
    /\ result = NoColumns
    /\ QueryIdle /\ EvalIdle

InitQuery ==
    /\ op = "get_prepared_queryset" /\ pc = "start"
    /\ GET \in ViewIdParams
    /\ data \in Bodies
    /\ project \in Projects
    /\ views \in [1..NumViews -> ViewRecords]
    /\ outcome = NoOutcome /\ executed = <<>>
    /\ ColumnsIdle /\ EvalIdle

InitEval ==
    /\ op = "evaluate_predictions" /\ pc = "start"
    /\ tasks \in TaskBatches
    /\ ml_backends \in [Backends -> Projects]
    /\ failing \in SUBSET Backends
    /\ calls = <<>> /\ i = 0 /\ raised = "none"
    /\ ColumnsIdle /\ QueryIdle

----------------------------------------------------------------------------
(* Specifications *)
NextColumns == GetAllColumns
SpecColumns == InitColumns /\ [][NextColumns]_vars

NextQuery == GetPreparedQueryset
SpecQuery == InitQuery /\ [][NextQuery]_vars

NextEval == EvalStart \/ PredictManyTasks \/ EvalReturn
SpecEval == InitEval /\ [][NextEval]_vars

----------------------------------------------------------------------------
(* Properties of get_all_columns (checked under SpecColumns) *)
ColumnsDone == op = "get_all_columns" /\ pc = "done"

IsDataColumn(c) == "parent" \in DOMAIN c

DataPart(cols) == SelectSeq(cols, IsDataColumn)

DataIds == Ids(DataPart(result.columns))

DeclaredKeys == Keys(data_types)

RECURSIVE SelectSeqBy(_, _)
\* subsequence of s whose elements are in the set S
SelectSeqBy(s, S) ==
    IF s = <<>> THEN <<>>
    ELSE IF Head(s) \in S THEN <<Head(s)>> \o SelectSeqBy(Tail(s), S)
    ELSE SelectSeqBy(Tail(s), S)

\* the declared fields, then the inferred fields that are not declared
DeclaredThenInferred ==
    DeclaredKeys \o SelectSeqBy(all_data_columns, FieldNames \ Range(DeclaredKeys))

SystemIds ==
    <<"id", "completed_at", "total_annotations", "cancelled_annotations",
      "total_predictions", "annotations_results", "predictions_score",
      "predictions_results", "file_upload", "created_at", "annotators">>

ReservedIds == Range(SystemIds) \cup {"data"}

\* C1 as stated: the data column ids are the declared fields in declaration
\* order followed by the undeclared inferred fields in discovery order, and
\* the undefined-sentinel id is among them iff no field is declared.
C1_AsStated ==
    ColumnsDone =>
        /\ DataIds = DeclaredThenInferred
        /\ (DATA_UNDEFINED_NAME \in Range(DataIds)) <=> (data_types = <<>>)

\* C1 amended: the data column ids are the declared fields followed by the
\* undeclared inferred fields, without the undefined-sentinel when at least
\* one field is declared; the sentinel id is among them iff no field is
\* declared and the sentinel is an inferred field.
C1_DataColumnIds ==
    ColumnsDone =>
        /\ DataIds = IF data_types # <<>>
                     THEN SelectSeqBy(DeclaredThenInferred, FieldNames \ {DATA_UNDEFINED_NAME})
                     ELSE DeclaredThenInferred
        /\ (DATA_UNDEFINED_NAME \in Range(DataIds))
               <=> (data_types = <<>> /\ DATA_UNDEFINED_NAME \in Range(all_data_columns))

C1_Witness ==
    /\ ColumnsDone
    /\ data_types # <<>>
    /\ DATA_UNDEFINED_NAME \in Range(all_data_columns)
    /\ "caption" \in Range(all_data_columns) \ Range(DeclaredKeys)
    /\ "caption" \in Range(DataIds)

ScenarioImageCaption ==
    /\ data_types = << <<"image", "Image">> >>
    /\ all_data_columns = <<"image", "caption">>

ColumnAt(cols, k, id, type, labeling) ==
    /\ cols[k].id = id
    /\ cols[k].type = type
    /\ cols[k].visibility_defaults.labeling = labeling

\* C2 as stated: with declared {image: Image} and inferred {image, caption}
\* the column 'image' (Image, visible in labeling) is followed by the column
\* 'caption' of type String that is hidden in labeling.
C2_AsStated ==
    (ColumnsDone /\ ScenarioImageCaption) =>
        \E a, b \in DOMAIN result.columns :
            /\ a < b
            /\ ColumnAt(result.columns, a, "image", "Image", TRUE)
            /\ ColumnAt(result.columns, b, "caption", "String", FALSE)

\* C2 amended: in that scenario 'image' (Image, visible in labeling) is
\* followed by 'caption' of type Unknown, hidden in labeling; any field seen
\* only in imported data, other than the undefined-sentinel, is an Unknown
\* column hidden in labeling, and every data column is visible in explore.
C2_InferredOnlyIsUnknown ==
    ColumnsDone =>
        /\ ScenarioImageCaption =>
              \E a, b \in DOMAIN result.columns :
                  /\ a < b
                  /\ ColumnAt(result.columns, a, "image", "Image", TRUE)
                  /\ ColumnAt(result.columns, b, "caption", "Unknown", FALSE)
        /\ \A k \in DOMAIN DataPart(result.columns) :
              LET c == DataPart(result.columns)[k]
              IN  /\ c.visibility_defaults.explore
                  /\ (c.id \notin Range(DeclaredKeys) /\ c.id # DATA_UNDEFINED_NAME)
                        => (c.type = "Unknown" /\ ~c.visibility_defaults.labeling)

C2_Witness ==
    /\ ColumnsDone
    /\ ScenarioImageCaption
    /\ Len(DataPart(result.columns)) = 2

\* C8 as stated: every column id occurs exactly once in the returned list,
\* whatever the declared and inferred fields are.
C8_AsStated == ColumnsDone => NoDup(Ids(result.columns))

\* C8 amended: the data column ids are pairwise distinct and so are the ids
\* of the other columns; the whole list is free of duplicate ids provided no
\* emitted data field bears the id of a system column or of the root 'data'.
C8_UniqueIdsUnlessReserved ==
    ColumnsDone =>
        /\ NoDup(DataIds)
        /\ NoDup(Ids(SelectSeq(result.columns, LAMBDA c : ~IsDataColumn(c))))
        /\ (Range(DataIds) \cap ReservedIds = {}) => NoDup(Ids(result.columns))

C8_Witness ==
    /\ ColumnsDone
    /\ Len(DataIds) >= 2
    /\ Range(DataIds) \cap ReservedIds = {}

RootOf(cols) == cols[Len(cols)]

\* the layout of the returned list around its last element
C10_Layout ==
    LET cols == result.columns
        root == RootOf(cols)
        n    == Len(DataIds)
    IN  /\ Len(cols) = n + Len(SystemIds) + 1
        /\ \A k \in 1..n : IsDataColumn(cols[k]) /\ cols[k].parent = "data"
        /\ \A k \in 1..Len(SystemIds) :
              /\ cols[n + k].id = SystemIds[k]
              /\ ~IsDataColumn(cols[n + k])
              /\ "children" \notin DOMAIN cols[n + k]
        /\ "children" \in DOMAIN root
        /\ root.id = "data" /\ root.type = "List"
        /\ root.children = [k \in 1..n |-> cols[k].id]

\* C10 as stated: data columns, then system columns, then the root 'data' of
\* type List whose children are the data column ids in emission order; every
\* data column has parent 'data' and no system column appears in children.
C10_AsStated ==
    ColumnsDone =>
        /\ C10_Layout
        /\ Range(RootOf(result.columns).children) \cap Range(SystemIds) = {}

\* C10 amended: the same layout; the id of a system column appears in
\* children only when an emitted data field bears that name.
C10_RootChildren ==
    ColumnsDone =>
        /\ C10_Layout
        /\ \A id \in Range(RootOf(result.columns).children) \cap Range(SystemIds) :
              id \in Range(DeclaredThenInferred)

C10_Witness ==
    /\ ColumnsDone
    /\ Len(RootOf(result.columns).children) = 3
    /\ "id" \in Range(RootOf(result.columns).children)

----------------------------------------------------------------------------
(* Properties of get_prepared_queryset (checked under SpecQuery) *)
QueryDone == op = "get_prepared_queryset" /\ pc = "done"

ViewId == int_from_request(GET, 0)

\* C3: with view_id > 0 the outcome is the one of the same request with an
\* empty body, and a built selection is the view's own parameters.
C3_ViewIgnoresBody ==
    (QueryDone /\ ViewId > 0) =>
        /\ outcome = get_prepared_queryset(GET, EmptyBody, project, views)
        /\ outcome.status = "ok" =>
              /\ outcome.prepare_params.all = views[ViewId].selected_items.all.val
              /\ outcome.prepare_params.filters = views[ViewId].filters
              /\ executed = <<outcome.prepare_params>>

C3_Witness ==
    /\ QueryDone /\ ViewId > 0
    /\ data.selectedItems.kind = "list"
    /\ data.filters.kind # "absent"
    /\ outcome.status = "ok"

ViewOfOtherProject ==
    /\ ViewId > 0 /\ ViewId \in DOMAIN views
    /\ views[ViewId].project # project

\* C4: a view of another project makes the call fail with the mismatch error
\* and no query is built or executed.
C4_ViewProjectMismatch ==
    (QueryDone /\ ViewOfOtherProject) =>
        /\ outcome.status = "DataManagerException"
        /\ outcome.message = "Project and View mismatch"
        /\ outcome.queryset = <<>>
        /\ executed = <<>>

C4_Witness == QueryDone /\ ViewOfOtherProject /\ data.selectedItems.kind = "dict"

\* the shape {all: bool, excluded: list} or {all: bool, included: list}
SelectedItemsShape(s) ==
    /\ s.kind = "dict"
    /\ s.all.kind = "bool"
    /\ \/ s.excluded.kind = "list" /\ s.included.kind \in {"absent", "list"}
       \/ s.included.kind = "list" /\ s.excluded.kind \in {"absent", "list"}

\* C5: on the inline path a selectedItems that is present and not of the
\* shape above fails (a non-mapping with the 'selectedItems must be dict'
\* error) and no query is executed; an absent selectedItems is taken as
\* {all: true, excluded: []} without error.
C5_InlineSelectedItems ==
    (QueryDone /\ ViewId <= 0) =>
        /\ (data.selectedItems.kind # "absent" /\ ~SelectedItemsShape(data.selectedItems)) =>
              /\ outcome.status \in {"DataManagerException", "ValidationError"}
              /\ executed = <<>>
        /\ data.selectedItems.kind \notin {"absent", "dict"} =>
              /\ outcome.status = "DataManagerException"
              /\ outcome.message = "selectedItems must be dict"
        /\ data.selectedItems.kind = "absent" =>
              /\ outcome.status = "ok"
              /\ outcome.prepare_params.all
              /\ outcome.prepare_params.excluded = <<>>

C5_Witness ==
    /\ QueryDone /\ ViewId <= 0
    /\ data.selectedItems.kind = "dict"
    /\ data.selectedItems.all.kind = "absent"
    /\ outcome.status = "ValidationError"

\* the selection and the filter the request resolves to
ResolvedSelection ==
    IF ViewId > 0 THEN views[ViewId].selected_items
    ELSE IF data.selectedItems.kind = "absent" THEN DefaultSelected ELSE data.selectedItems

ResolvedFilter ==
    IF ViewId > 0 THEN views[ViewId].filters
    ELSE IF data.filters.kind = "absent" THEN "none" ELSE data.filters.val

FilteredRecords ==
    {t \in TaskIds : TaskProject(t) = project /\ (ResolvedFilter = "none" \/ IsLabeled(t))}

IdsOf(v) == IF v.kind = "list" THEN Range(v.val) ELSE {}

\* C9: the resolved records are the filtered records minus 'excluded' when
\* all is true, and the filtered records that are in 'included' when all is
\* false.
C9_InclusionOverlay ==
    (QueryDone /\ outcome.status = "ok") =>
        /\ NoDup(outcome.queryset)
        /\ Range(outcome.queryset) =
              IF ResolvedSelection.all.val
              THEN FilteredRecords \ IdsOf(ResolvedSelection.excluded)
              ELSE FilteredRecords \cap IdsOf(ResolvedSelection.included)

C9_Witness ==
    /\ QueryDone /\ ViewId <= 0 /\ project = 1
    /\ data.selectedItems = JDict(JBool(TRUE), JList(<<5>>), Absent)
    /\ data.filters.kind = "absent"
    /\ 5 \in FilteredRecords
    /\ {1, 2, 3} \subseteq Range(outcome.queryset)
    /\ 5 \notin Range(outcome.queryset)

----------------------------------------------------------------------------
(* Properties of evaluate_predictions (checked under SpecEval) *)
EvalEnded == op = "evaluate_predictions" /\ pc \in {"done", "raised"}

ProjectBackends == {b \in Backends : ml_backends[b] = TaskProject(tasks[1])}

CallsTo(b) == {k \in DOMAIN calls : calls[k][1] = b}

\* C6: when exactly one backend of the project fails, every other backend of
\* the project is called exactly once with the full task list and the call
\* returns normally; with no tasks no backend is called.
C6_FailureIsolated ==
    EvalEnded =>
        /\ tasks = <<>> => calls = <<>>
        /\ (tasks # <<>> /\ Cardinality(ProjectBackends \cap failing) = 1) =>
              /\ pc = "done"
              /\ \A b \in ProjectBackends \ failing :
                    /\ Cardinality(CallsTo(b)) = 1
                    /\ \A k \in CallsTo(b) : calls[k][2] = tasks

MixedProjects == \E a, b \in DOMAIN tasks : TaskProject(tasks[a]) # TaskProject(tasks[b])

\* C7: tasks of more than one project make the call fail with an
\* inconsistent-scope error and reach no backend.
C7_MixedProjectsRejected ==
    (EvalEnded /\ MixedProjects) =>
        /\ raised = "InconsistentScopeError"
        /\ calls = <<>>

====
